---- MODULE Spec2Model ----
(***************************************************************************)
(* Model of twitter.common.python.translator: ChainedTranslator,           *)
(* SourceTranslator, EggTranslator and Translator.default.                  *)
(*                                                                         *)
(* Every caller constructs one chain (directly or through                  *)
(* Translator.default) and runs one translate(link) call on it.  The       *)
(* strategies' translate methods are stepped statement by statement; the   *)
(* collaborators (fetch, Installer, Distiller, pkg_resources, Platform)    *)
(* are nondeterministic choices over the outcomes their interface allows.  *)
(***************************************************************************)
EXTENDS Integers, Sequences, FiniteSets, TLC

\* Longest argument list handed to ChainedTranslator(*translators).
MaxArgs == 3

\* Python's None where a path or an installer is expected (line 77).
NoPath == 0
\* The install cache directory a caller supplies (install_cache=...).
CacheDir == 1

Callers == {"c1"}

VARIABLES
  origin,       \* how the caller's chain was built: "none", "chained", "default"
  args,         \* the entries handed to ChainedTranslator.__init__
  ctor,         \* outcome of the constructor: "none", "ok", "ValueError"
  translators,  \* ChainedTranslator._translators
  link,         \* the link handed to translate
  cpc,          \* position in ChainedTranslator.translate
  idx,          \* position of the for loop of ChainedTranslator.translate
  result,       \* what ChainedTranslator.translate returned or raised
  log,          \* history: the strategy invocations and their outcomes
  spc,          \* position inside the strategy's translate
  unpack_path,  \* local of SourceTranslator.translate
  installer,    \* local of SourceTranslator.translate
  egg,          \* path produced by distill / EggLink.fetch
  pend,         \* the outcome the strategy is about to leave with
  trace,        \* history: collaborator operations of the call
  dirs,         \* directories that exist
  live,         \* installers that hold resources (not cleaned up)
  cache,        \* artifacts written into install caches
  nextId        \* next fresh path / object id

vars == <<origin, args, ctor, translators, link, cpc, idx, result, log, spc,
          unpack_path, installer, egg, pend, trace, dirs, live, cache,
          nextId>>

chainVars == <<origin, args, ctor, translators, link, cpc, idx, result, log>>
fsVars == <<dirs, live, cache, nextId>>
srcLocals == <<unpack_path, installer, egg>>

----------------------------------------------------------------------------
\* Values

\* Entries a caller can hand to ChainedTranslator: None, a falsy object that
\* is no translator (0, '', []), a truthy object that is no translator, and
\* translators.
\* An entry with the constructor defaults platform=Platform.current(),
\* python=Platform.python(), conn_timeout=None.
Entry(t, ic) ==
  [type |-> t, install_cache |-> ic, platform |-> "current",
   python |-> "current", conn_timeout |-> "None"]
NoneEntry == Entry("None", NoPath)
ZeroEntry == Entry("Zero", NoPath)
JunkEntry == Entry("Junk", NoPath)
MockTranslator == Entry("Mock", NoPath)

\* filter(None, ...) keeps the entries whose truth value is true.
Truthy(e) == e.type \notin {"None", "Zero"}
\* isinstance(tx, TranslatorBase)
IsTranslator(e) == e.type \in {"Mock", "Src", "Egg"}

\* install_cache or safe_mkdtemp(): tmp is the directory safe_mkdtemp would
\* return, used only when no cache was given.
SourceTranslatorInit(install_cache, platform, python, conn_timeout, tmp) ==
  [type |-> "Src",
   install_cache |-> IF install_cache # NoPath THEN install_cache ELSE tmp,
   platform |-> platform, python |-> python, conn_timeout |-> conn_timeout]

EggTranslatorInit(install_cache, platform, python, conn_timeout, tmp) ==
  [type |-> "Egg",
   install_cache |-> IF install_cache # NoPath THEN install_cache ELSE tmp,
   platform |-> platform, python |-> python, conn_timeout |-> conn_timeout]

\* Values of the platform, python and conn_timeout parameters.
Platforms == {"current", "other"}
Pythons == {"current", "other"}
Timeouts == {"None", "5s"}

Entries == {NoneEntry, ZeroEntry, JunkEntry, MockTranslator,
            SourceTranslatorInit(CacheDir, "current", "current", "None", NoPath),
            EggTranslatorInit(CacheDir, "current", "current", "None", NoPath)}

ArgSeqs == UNION {[1..n -> Entries] : n \in 0..MaxArgs}

LinkKinds == {"SOURCE", "BINARY"}
LinkNames == {"distribute", "foo"}
Links == [kind : LinkKinds, name : LinkNames]
NoLink == [kind |-> "none", name |-> ""]

\* What a translate call leaves with: nothing yet, None, a Distribution, or
\* a raised error.
Out(k, w, i, l) == [kind |-> k, what |-> w, id |-> i, loc |-> l]
NoOut == Out("none", "", 0, NoPath)
Empty == Out("empty", "None", 0, NoPath)
Raise(w) == Out("raise", w, 0, NoPath)
Dist(w, i, l) == Out("dist", w, i, l)

\* if dist: a Distribution is true, None is not.
IsDist(o) == o.kind = "dist"

Event(c, o, p, s) == [i |-> idx[c], op |-> o, v |-> p, s |-> s]

----------------------------------------------------------------------------
\* ChainedTranslator.__init__

ChainedTranslatorInit_NoFilter(ts) ==
  IF \E i \in 1..Len(ts) : ~IsTranslator(ts[i])
  THEN [status |-> "ValueError", translators |-> <<>>]
  ELSE [status |-> "ok", translators |-> ts]

ChainedTranslatorInit_NoTypeCheck(ts) ==
  [status |-> "ok", translators |-> SelectSeq(ts, Truthy)]

ChainedTranslatorInit(ts) ==
  LET kept == SelectSeq(ts, Truthy)
  IN  IF \E i \in 1..Len(kept) : ~IsTranslator(kept[i])
      THEN [status |-> "ValueError", translators |-> <<>>]
      ELSE [status |-> "ok", translators |-> kept]

\* Translator.default: the egg strategy is constructed first, then the
\* source strategy; each evaluates install_cache or safe_mkdtemp() itself.
Translator_default_SourceFirst(install_cache, platform, python, conn_timeout, tmp1, tmp2) ==
  <<SourceTranslatorInit(install_cache, platform, python, conn_timeout, tmp1),
    EggTranslatorInit(install_cache, platform, python, conn_timeout, tmp2)>>

Translator_default(install_cache, platform, python, conn_timeout, tmp1, tmp2) ==
  <<EggTranslatorInit(install_cache, platform, python, conn_timeout, tmp1),
    SourceTranslatorInit(install_cache, platform, python, conn_timeout, tmp2)>>

\* ChainedTranslator(*ts) called by a caller.
NewChain(c) ==
  /\ cpc[c] = "new"
  /\ \E ts \in ArgSeqs :
       LET r == ChainedTranslatorInit(ts)
       IN  /\ origin' = [origin EXCEPT ![c] = "chained"]
           /\ args' = [args EXCEPT ![c] = ts]
           /\ ctor' = [ctor EXCEPT ![c] = r.status]
           /\ translators' = [translators EXCEPT ![c] = r.translators]
           /\ cpc' = [cpc EXCEPT ![c] = IF r.status = "ok" THEN "ready" ELSE "failed"]
  /\ UNCHANGED <<link, idx, result, log, spc, srcLocals, pend, trace, fsVars>>

\* Translator.default(install_cache=ic) called by a caller.
NewDefault(c) ==
  /\ cpc[c] = "new"
  /\ \E ic \in {NoPath, CacheDir}, pl \in Platforms, py \in Pythons,
        to \in Timeouts :
       LET ts == Translator_default(ic, pl, py, to, nextId, nextId + 1)
           tmps == IF ic = NoPath THEN {nextId, nextId + 1} ELSE {}
           r == ChainedTranslatorInit(ts)
       IN  /\ origin' = [origin EXCEPT ![c] = "default"]
           /\ args' = [args EXCEPT ![c] = ts]
           /\ ctor' = [ctor EXCEPT ![c] = r.status]
           /\ translators' = [translators EXCEPT ![c] = r.translators]
           /\ cpc' = [cpc EXCEPT ![c] = IF r.status = "ok" THEN "ready" ELSE "failed"]
           /\ dirs' = dirs \cup tmps
           /\ nextId' = nextId + Cardinality(tmps)
  /\ UNCHANGED <<link, idx, result, log, spc, srcLocals, pend, trace, live, cache>>

----------------------------------------------------------------------------
\* ChainedTranslator.translate

\* translate(link) is called on a constructed chain.
Begin(c) ==
  /\ cpc[c] = "ready"
  /\ \E l \in Links : link' = [link EXCEPT ![c] = l]
  /\ cpc' = [cpc EXCEPT ![c] = "loop"]
  /\ idx' = [idx EXCEPT ![c] = 1]
  /\ UNCHANGED <<origin, args, ctor, translators, result, log, spc, srcLocals,
                 pend, trace, fsVars>>

\* The position a strategy's translate starts at.
Entry_pc(tx) ==
  CASE tx.type = "Mock" -> "mock"
    [] tx.type = "Src" -> "src_check"
    [] tx.type = "Egg" -> "egg_check"

\* for tx in self._translators: the loop is exhausted, translate falls off
\* its end and returns None.
ChainExhausted(c) ==
  /\ cpc[c] = "loop"
  /\ idx[c] > Len(translators[c])
  /\ result' = [result EXCEPT ![c] = Empty]
  /\ cpc' = [cpc EXCEPT ![c] = "done"]
  /\ UNCHANGED <<origin, args, ctor, translators, link, idx, log, spc, srcLocals,
                 pend, trace, fsVars>>

\* dist = tx.translate(link): the call is entered.  An object that has no
\* translate method raises AttributeError at the call.
ChainCall(c) ==
  /\ cpc[c] = "loop"
  /\ idx[c] <= Len(translators[c])
  /\ cpc' = [cpc EXCEPT ![c] = "call"]
  /\ IF IsTranslator(translators[c][idx[c]])
     THEN /\ spc' = [spc EXCEPT ![c] = Entry_pc(translators[c][idx[c]])]
          /\ UNCHANGED pend
     ELSE /\ spc' = [spc EXCEPT ![c] = "ret"]
          /\ pend' = [pend EXCEPT ![c] = Raise("AttributeError")]
  /\ UNCHANGED <<origin, args, ctor, translators, link, idx, result, log,
                 srcLocals, trace, fsVars>>

\* What the loop does with the outcome o of tx.translate(link): an error
\* propagates, a Distribution is returned, None moves on to the next strategy.
ChainStep_NoStop(o) ==
  IF o.kind = "raise" THEN "raise" ELSE "next"

ChainStep_StopOnEmpty(o) ==
  IF o.kind = "raise" THEN "raise" ELSE "return"

ChainStep(o) ==
  IF o.kind = "raise" THEN "raise" ELSE IF IsDist(o) THEN "return" ELSE "next"

\* tx.translate(link) has returned or raised; if dist: return dist.
ChainAfter(c) ==
  /\ cpc[c] = "call"
  /\ spc[c] = "ret"
  /\ LET o == pend[c]
         step == ChainStep(o)
     IN  /\ log' = [log EXCEPT ![c] = Append(@, [idx |-> idx[c],
                                                 tx |-> translators[c][idx[c]],
                                                 out |-> o])]
         /\ IF step = "next"
            THEN /\ idx' = [idx EXCEPT ![c] = @ + 1]
                 /\ cpc' = [cpc EXCEPT ![c] = "loop"]
                 /\ UNCHANGED result
            ELSE /\ result' = [result EXCEPT ![c] = o]
                 /\ cpc' = [cpc EXCEPT ![c] = "done"]
                 /\ UNCHANGED idx
  /\ spc' = [spc EXCEPT ![c] = "idle"]
  /\ pend' = [pend EXCEPT ![c] = NoOut]
  /\ UNCHANGED <<origin, args, ctor, translators, link, srcLocals, trace, fsVars>>

\* Any other strategy conforming to TranslatorBase: it returns a fresh
\* Distribution, returns None, or raises.
Mock(c) ==
  /\ spc[c] = "mock"
  /\ \/ /\ pend' = [pend EXCEPT ![c] = Dist("Mock", nextId, NoPath)]
        /\ nextId' = nextId + 1
     \/ /\ pend' = [pend EXCEPT ![c] = Empty]
        /\ UNCHANGED nextId
     \/ /\ pend' = [pend EXCEPT ![c] = Raise("MockError")]
        /\ UNCHANGED nextId
  /\ spc' = [spc EXCEPT ![c] = "ret"]
  /\ UNCHANGED <<chainVars, srcLocals, trace, dirs, live, cache>>

----------------------------------------------------------------------------
\* Collaborators of the strategies (outside this file): what each can do.

\* Platform.compatible / Platform.version_compatible for a SourceTranslator:
\* both hold, or the named check fails.
SourceCompat == {"ok", "platform", "version"}
\* Platform.distribution_compatible for an EggTranslator.
EggCompat == {"ok", "incompatible"}
\* SourceLink.fetch: returns a fresh unpack directory, or raises URLError,
\* having created its directory or not.
SourceFetchOutcomes == {"ok", "URLError", "URLError_after_mkdir"}
\* EggLink.fetch(location=...): writes the egg into location, or raises.
EggFetchOutcomes == {"ok", "URLError"}
\* Installer(unpack_path, strict=...)
InstallerOutcomes == {"ok", "InstallerError"}
\* installer.distribution()
BuildOutcomes == {"ok", "InstallFailure", "BuildError"}
\* Distiller(dist).distill(into=...)
DistillOutcomes == {"ok", "DistillError"}
\* dist_from_egg(path): pkg_resources reads the metadata
MetadataOutcomes == {"ok", "MetadataError"}

\* The strategy a caller is inside of.
Self(c) == translators[c][idx[c]]

Log(c, o, p, s) == trace' = [trace EXCEPT ![c] = Append(@, Event(c, o, p, s))]

----------------------------------------------------------------------------
\* SourceTranslator.translate

\* Lines 71-76: the three guards before any work.
SourceApplicable_NoKindCheck(l, compat) == compat = "ok"

SourceApplicable(l, compat) ==
  /\ l.kind = "SOURCE"
  /\ compat # "platform"
  /\ compat # "version"

\* The statement that follows a statement of lines 78-92 when it completes:
\* fetch, Installer, distribution, distill, dist_from_egg inside the try
\* block; installer.cleanup() then safe_rmtree in the finally block.
SourceNext_DistillBeforeBuild(pc) ==
  CASE pc = "src_fetch" -> "src_installer"
    [] pc = "src_installer" -> "src_distill"
    [] pc = "src_distill" -> "src_build"
    [] pc = "src_build" -> "src_meta"
    [] pc = "finally" -> "src_cleanup"
    [] pc = "src_cleanup" -> "src_rmtree"
    [] pc = "src_rmtree" -> "ret"

SourceNext_RmtreeFirst(pc) ==
  CASE pc = "src_fetch" -> "src_installer"
    [] pc = "src_installer" -> "src_build"
    [] pc = "src_build" -> "src_distill"
    [] pc = "src_distill" -> "src_meta"
    [] pc = "finally" -> "src_rmtree"
    [] pc = "src_rmtree" -> "src_cleanup"
    [] pc = "src_cleanup" -> "ret"

SourceNext(pc) ==
  CASE pc = "src_fetch" -> "src_installer"
    [] pc = "src_installer" -> "src_build"
    [] pc = "src_build" -> "src_distill"
    [] pc = "src_distill" -> "src_meta"
    [] pc = "finally" -> "src_cleanup"
    [] pc = "src_cleanup" -> "src_rmtree"
    [] pc = "src_rmtree" -> "ret"

\* try: ... finally: every way out of the try block runs the finally block.
\* A failed fetch is not tried again.
SourceLeave_NoFinally(o) ==
  IF o.kind = "raise" THEN "ret" ELSE SourceNext("finally")

SourceLeave_RetryFetch(o) ==
  IF o = Raise("URLError") THEN "src_fetch" ELSE SourceNext("finally")

SourceLeave(o) == SourceNext("finally")

\* What safe_rmtree is called on in the finally block: the call's own
\* unpack_path, when fetch returned one.
RmtreeTargets_AllUnpacked(c) ==
  {unpack_path[d] : d \in DOMAIN unpack_path} \ {NoPath}

RmtreeTargets_WithCache(c) ==
  {unpack_path[c], translators[c][idx[c]].install_cache} \ {NoPath}

RmtreeTargets(c) == {unpack_path[c]} \ {NoPath}

\* link.fetch raised: no except clause catches it.
SourceFetchError_Caught(e) == Empty

SourceFetchError(e) == Raise(e)

\* installer.distribution() raised: except Installer.InstallFailure returns
\* None, anything else propagates.
SourceBuildError_Propagates(e) == Raise(e)

SourceBuildError(e) == IF e = "InstallFailure" THEN Empty ELSE Raise(e)

\* strict=(link.name != 'distribute')
InstallerStrict_Always(l) == TRUE

InstallerStrict(l) == l.name # "distribute"

SrcCheck(c) ==
  /\ spc[c] = "src_check"
  /\ \E compat \in SourceCompat :
       /\ Log(c, "check", NoPath, compat)
       /\ IF SourceApplicable(link[c], compat)
          THEN /\ spc' = [spc EXCEPT ![c] = "src_fetch"]
               /\ UNCHANGED pend
          ELSE /\ pend' = [pend EXCEPT ![c] = Empty]
               /\ spc' = [spc EXCEPT ![c] = "ret"]
  /\ unpack_path' = [unpack_path EXCEPT ![c] = NoPath]
  /\ installer' = [installer EXCEPT ![c] = NoPath]
  /\ egg' = [egg EXCEPT ![c] = NoPath]
  /\ UNCHANGED <<chainVars, fsVars>>

\* Line 79: unpack_path = link.fetch(conn_timeout=self._conn_timeout)
SrcFetch(c) ==
  /\ spc[c] = "src_fetch"
  /\ \E o \in SourceFetchOutcomes :
       \/ /\ o = "ok"
          /\ dirs' = dirs \cup {nextId}
          /\ nextId' = nextId + 1
          /\ unpack_path' = [unpack_path EXCEPT ![c] = nextId]
          /\ Log(c, "fetch", nextId, "ok")
          /\ spc' = [spc EXCEPT ![c] = SourceNext("src_fetch")]
          /\ UNCHANGED pend
       \/ /\ o = "URLError"
          /\ Log(c, "fetch", NoPath, o)
          /\ pend' = [pend EXCEPT ![c] = SourceFetchError("URLError")]
          /\ spc' = [spc EXCEPT ![c] = SourceLeave(pend'[c])]
          /\ UNCHANGED <<dirs, nextId, unpack_path>>
       \/ /\ o = "URLError_after_mkdir"
          /\ dirs' = dirs \cup {nextId}
          /\ nextId' = nextId + 1
          /\ Log(c, "fetch", nextId, "URLError")
          /\ pend' = [pend EXCEPT ![c] = SourceFetchError("URLError")]
          /\ spc' = [spc EXCEPT ![c] = SourceLeave(pend'[c])]
          /\ UNCHANGED unpack_path
  /\ UNCHANGED <<chainVars, installer, egg, live, cache>>

\* Line 81: installer = Installer(unpack_path, strict=...)
SrcInstaller(c) ==
  /\ spc[c] = "src_installer"
  /\ \E o \in InstallerOutcomes :
       \/ /\ o = "ok"
          /\ installer' = [installer EXCEPT ![c] = nextId]
          /\ live' = live \cup {nextId}
          /\ nextId' = nextId + 1
          /\ Log(c, "Installer", nextId,
                 IF InstallerStrict(link[c]) THEN "strict" ELSE "lenient")
          /\ spc' = [spc EXCEPT ![c] = SourceNext("src_installer")]
          /\ UNCHANGED pend
       \/ /\ o # "ok"
          /\ Log(c, "Installer", NoPath, o)
          /\ pend' = [pend EXCEPT ![c] = Raise(o)]
          /\ spc' = [spc EXCEPT ![c] = SourceLeave(pend'[c])]
          /\ UNCHANGED <<installer, live, nextId>>
  /\ UNCHANGED <<chainVars, unpack_path, egg, dirs, cache>>

\* Lines 83-86: dist = installer.distribution()
SrcBuild(c) ==
  /\ spc[c] = "src_build"
  /\ \E o \in BuildOutcomes :
       /\ Log(c, "distribution", installer[c], o)
       /\ IF o = "ok"
          THEN /\ spc' = [spc EXCEPT ![c] = SourceNext("src_build")]
               /\ UNCHANGED pend
          ELSE /\ pend' = [pend EXCEPT ![c] = SourceBuildError(o)]
               /\ spc' = [spc EXCEPT ![c] = SourceLeave(pend'[c])]
  /\ UNCHANGED <<chainVars, srcLocals, fsVars>>

\* Line 87: Distiller(dist).distill(into=self._install_cache)
SrcDistill(c) ==
  /\ spc[c] = "src_distill"
  /\ \E o \in DistillOutcomes :
       /\ Log(c, "distill", Self(c).install_cache, o)
       /\ IF o = "ok"
          THEN /\ cache' = cache \cup {[dir |-> Self(c).install_cache,
                                        name |-> link[c].name]}
               /\ egg' = [egg EXCEPT ![c] = Self(c).install_cache]
               /\ spc' = [spc EXCEPT ![c] = SourceNext("src_distill")]
               /\ UNCHANGED pend
          ELSE /\ pend' = [pend EXCEPT ![c] = Raise(o)]
               /\ spc' = [spc EXCEPT ![c] = SourceLeave(pend'[c])]
               /\ UNCHANGED <<cache, egg>>
  /\ UNCHANGED <<chainVars, unpack_path, installer, dirs, live, nextId>>

\* Line 87: return dist_from_egg(...)
SrcMeta(c) ==
  /\ spc[c] = "src_meta"
  /\ \E o \in MetadataOutcomes :
       /\ Log(c, "dist_from_egg", egg[c], o)
       /\ IF o = "ok"
          THEN /\ pend' = [pend EXCEPT ![c] = Dist("Src", nextId, egg[c])]
               /\ nextId' = nextId + 1
          ELSE /\ pend' = [pend EXCEPT ![c] = Raise(o)]
               /\ UNCHANGED nextId
       /\ spc' = [spc EXCEPT ![c] = SourceLeave(pend'[c])]
  /\ UNCHANGED <<chainVars, srcLocals, dirs, live, cache>>

\* Lines 89-90: if installer: installer.cleanup()
SrcCleanup(c) ==
  /\ spc[c] = "src_cleanup"
  /\ IF installer[c] # NoPath
     THEN /\ live' = live \ {installer[c]}
          /\ Log(c, "cleanup", installer[c], "ok")
     ELSE UNCHANGED <<live, trace>>
  /\ spc' = [spc EXCEPT ![c] = SourceNext("src_cleanup")]
  /\ UNCHANGED <<chainVars, srcLocals, pend, dirs, cache, nextId>>

\* Lines 91-92: if unpack_path: safe_rmtree(unpack_path)
SrcRmtree(c) ==
  /\ spc[c] = "src_rmtree"
  /\ IF unpack_path[c] # NoPath
     THEN /\ dirs' = dirs \ RmtreeTargets(c)
          /\ Log(c, "rmtree", unpack_path[c], "ok")
     ELSE UNCHANGED <<dirs, trace>>
  /\ spc' = [spc EXCEPT ![c] = SourceNext("src_rmtree")]
  /\ UNCHANGED <<chainVars, srcLocals, pend, live, cache, nextId>>

----------------------------------------------------------------------------
\* EggTranslator.translate

\* Lines 105-108
EggApplicable_NoCompatCheck(l, compat) == l.kind = "BINARY"

EggApplicable(l, compat) ==
  /\ l.kind = "BINARY"
  /\ compat = "ok"

\* location=self._install_cache: where the egg is fetched to.
EggFetchLocation_Temporary(tx) == NoPath

EggFetchLocation(tx) == tx.install_cache

\* except urllib_error.URLError: log and return None
EggFetchError_Propagates(e) == Raise(e)

EggFetchError(e) == IF e = "URLError" THEN Empty ELSE Raise(e)

EggCheck(c) ==
  /\ spc[c] = "egg_check"
  /\ \E compat \in EggCompat :
       /\ Log(c, "check", NoPath, compat)
       /\ IF EggApplicable(link[c], compat)
          THEN /\ spc' = [spc EXCEPT ![c] = "egg_fetch"]
               /\ UNCHANGED pend
          ELSE /\ pend' = [pend EXCEPT ![c] = Empty]
               /\ spc' = [spc EXCEPT ![c] = "ret"]
  /\ UNCHANGED <<chainVars, srcLocals, fsVars>>

\* Lines 109-113: egg = link.fetch(location=self._install_cache, ...)
EggFetch(c) ==
  /\ spc[c] = "egg_fetch"
  /\ \E o \in EggFetchOutcomes :
       /\ Log(c, "fetch", EggFetchLocation(Self(c)), o)
       /\ IF o = "ok"
          THEN /\ cache' = cache \cup {[dir |-> EggFetchLocation(Self(c)),
                                        name |-> link[c].name]}
               /\ egg' = [egg EXCEPT ![c] = EggFetchLocation(Self(c))]
               /\ spc' = [spc EXCEPT ![c] = "egg_meta"]
               /\ UNCHANGED pend
          ELSE /\ pend' = [pend EXCEPT ![c] = EggFetchError(o)]
               /\ spc' = [spc EXCEPT ![c] = "ret"]
               /\ UNCHANGED <<cache, egg>>
  /\ UNCHANGED <<chainVars, unpack_path, installer, dirs, live, nextId>>

\* Line 114: return dist_from_egg(egg)
EggMeta(c) ==
  /\ spc[c] = "egg_meta"
  /\ \E o \in MetadataOutcomes :
       /\ Log(c, "dist_from_egg", egg[c], o)
       /\ IF o = "ok"
          THEN /\ pend' = [pend EXCEPT ![c] = Dist("Egg", nextId, egg[c])]
               /\ nextId' = nextId + 1
          ELSE /\ pend' = [pend EXCEPT ![c] = Raise(o)]
               /\ UNCHANGED nextId
  /\ spc' = [spc EXCEPT ![c] = "ret"]
  /\ UNCHANGED <<chainVars, srcLocals, dirs, live, cache>>

----------------------------------------------------------------------------
\* Specification

Init ==
  /\ origin = [c \in Callers |-> "none"]
  /\ args = [c \in Callers |-> <<>>]
  /\ ctor = [c \in Callers |-> "none"]
  /\ translators = [c \in Callers |-> <<>>]
  /\ link = [c \in Callers |-> NoLink]
  /\ cpc = [c \in Callers |-> "new"]
  /\ idx = [c \in Callers |-> 0]
  /\ result = [c \in Callers |-> NoOut]
  /\ log = [c \in Callers |-> <<>>]
  /\ spc = [c \in Callers |-> "idle"]
  /\ unpack_path = [c \in Callers |-> NoPath]
  /\ installer = [c \in Callers |-> NoPath]
  /\ egg = [c \in Callers |-> NoPath]
  /\ pend = [c \in Callers |-> NoOut]
  /\ trace = [c \in Callers |-> <<>>]
  /\ dirs = {CacheDir}
  /\ live = {}
  /\ cache = {}
  /\ nextId = CacheDir + 1

\* One step of caller c.
Step(c) ==
  \/ NewChain(c)
  \/ NewDefault(c)
  \/ Begin(c)
  \/ ChainExhausted(c)
  \/ ChainCall(c)
  \/ ChainAfter(c)
  \/ Mock(c)
  \/ SrcCheck(c)
  \/ SrcFetch(c)
  \/ SrcInstaller(c)
  \/ SrcBuild(c)
  \/ SrcDistill(c)
  \/ SrcMeta(c)
  \/ SrcCleanup(c)
  \/ SrcRmtree(c)
  \/ EggCheck(c)
  \/ EggFetch(c)
  \/ EggMeta(c)

Next == \E c \in Callers : Step(c)

Spec == Init /\ [][Next]_vars

----------------------------------------------------------------------------
\* Concurrent translate calls

\* Two threads, each inside its own call of SourceTranslator.translate.
ConcCallers == {"c1", "c2"}

\* Both callers hold a constructed SourceTranslator: the same instance, or
\* two instances with the same or with different install caches.
InitConc ==
  /\ \E ic \in {CacheDir, CacheDir + 1}, pl \in Platforms :
       translators =
         [c \in ConcCallers |->
            IF c = "c1"
            THEN <<SourceTranslatorInit(CacheDir, "current", "current",
                                        "None", NoPath)>>
            ELSE <<SourceTranslatorInit(ic, pl, "current", "None", NoPath)>>]
  /\ args = translators
  /\ origin = [c \in ConcCallers |-> "chained"]
  /\ ctor = [c \in ConcCallers |-> "ok"]
  /\ link = [c \in ConcCallers |-> NoLink]
  /\ cpc = [c \in ConcCallers |-> "ready"]
  /\ idx = [c \in ConcCallers |-> 0]
  /\ result = [c \in ConcCallers |-> NoOut]
  /\ log = [c \in ConcCallers |-> <<>>]
  /\ spc = [c \in ConcCallers |-> "idle"]
  /\ unpack_path = [c \in ConcCallers |-> NoPath]
  /\ installer = [c \in ConcCallers |-> NoPath]
  /\ egg = [c \in ConcCallers |-> NoPath]
  /\ pend = [c \in ConcCallers |-> NoOut]
  /\ trace = [c \in ConcCallers |-> <<>>]
  /\ dirs = {CacheDir, CacheDir + 1}
  /\ live = {}
  /\ cache = {}
  /\ nextId = CacheDir + 2

\* One step of a thread: the statements of the chain loop and of
\* SourceTranslator.translate, interleaved with the other thread's.
StepConc(c) ==
  \/ Begin(c)
  \/ ChainExhausted(c)
  \/ ChainCall(c)
  \/ ChainAfter(c)
  \/ SrcCheck(c)
  \/ SrcFetch(c)
  \/ SrcInstaller(c)
  \/ SrcBuild(c)
  \/ SrcDistill(c)
  \/ SrcMeta(c)
  \/ SrcCleanup(c)
  \/ SrcRmtree(c)

NextConc == \E c \in ConcCallers : StepConc(c)

SpecConc == InitConc /\ [][NextConc]_vars

----------------------------------------------------------------------------
\* Vocabulary of the properties

\* The i-th strategy invocation of caller c's translate call has been left.
Exited(c, i) ==
  \/ Len(log[c]) >= i
  \/ (cpc[c] = "call" /\ idx[c] = i /\ spc[c] = "ret")

\* What the i-th invocation left with.
Outcome(c, i) == IF Len(log[c]) >= i THEN log[c][i].out ELSE pend[c]

\* The collaborator operations of the i-th invocation.
EventsOf(c, i) == {k \in 1..Len(trace[c]) : trace[c][k].i = i}

\* The i-th invocation performed operation o with report s.
Did(c, i, o, s) ==
  \E k \in EventsOf(c, i) : trace[c][k].op = o /\ trace[c][k].s = s

\* The argument list without its absent (None) entries.
StripAbsent(ts) == SelectSeq(ts, LAMBDA e : e # NoneEntry)

----------------------------------------------------------------------------
\* C1: translate invokes the strategies in construction order, each at most
\* once; a strategy that returns a Distribution is the last one invoked and
\* the chain returns exactly that Distribution.
C1_FirstSuccessWins ==
  \A c \in Callers :
    /\ \A k \in 1..Len(log[c]) :
         /\ log[c][k].idx = k
         /\ k <= Len(translators[c])
         /\ log[c][k].tx = translators[c][k]
         /\ IsDist(log[c][k].out) =>
              /\ k = Len(log[c])
              /\ cpc[c] = "done"
              /\ result[c] = log[c][k].out
    /\ cpc[c] = "loop" => Len(log[c]) = idx[c] - 1
    /\ cpc[c] = "call" => Len(log[c]) = idx[c] - 1
    /\ cpc[c] = "done" => spc[c] = "idle"
    /\ \A k \in 1..Len(trace[c]) :
         trace[c][k].i <= (IF cpc[c] = "call" THEN idx[c] ELSE Len(log[c]))

\* Strategy 2 of 3 returned a Distribution and strategy 3 was never invoked.
C1_Witness ==
  \E c \in Callers :
    /\ cpc[c] = "done"
    /\ Len(translators[c]) = 3
    /\ Len(log[c]) = 2
    /\ log[c][1].out = Empty
    /\ IsDist(log[c][2].out)
    /\ result[c] = log[c][2].out

\* C2: when every strategy returned None (also when there is none), translate
\* returns None, raises nothing and has invoked every strategy exactly once.
C2_AllEmptyReturnsEmpty ==
  \A c \in Callers :
    (cpc[c] = "done" /\ \A k \in 1..Len(log[c]) : log[c][k].out = Empty) =>
      /\ result[c] = Empty
      /\ Len(log[c]) = Len(translators[c])
      /\ \A k \in 1..Len(log[c]) : log[c][k].idx = k

\* Three strategies, all returned None, the chain returned None.
C2_Witness ==
  \E c \in Callers :
    /\ cpc[c] = "done"
    /\ Len(translators[c]) = 3
    /\ Len(log[c]) = 3
    /\ \A k \in 1..3 : log[c][k].out = Empty
    /\ result[c] = Empty

\* C3 as stated: a constructor call with any present entry that is no
\* translator fails with ValueError.
C3_AnyNonConformingEntryFails ==
  \A c \in Callers :
    (/\ origin[c] = "chained"
     /\ \E i \in 1..Len(args[c]) :
          args[c][i] # NoneEntry /\ ~IsTranslator(args[c][i])) =>
      ctor[c] = "ValueError"

\* C3, amended: the constructor fails with ValueError exactly when an entry
\* that is true (so survives filter(None, ...)) is no translator; no chain
\* holds a non-translator and translate is never called on one.
C3_TruthyNonConformingEntryFails ==
  \A c \in Callers :
    /\ origin[c] = "chained" =>
         (ctor[c] = "ValueError" <=>
            \E i \in 1..Len(args[c]) :
              Truthy(args[c][i]) /\ ~IsTranslator(args[c][i]))
    /\ ctor[c] = "ValueError" =>
         /\ cpc[c] = "failed"
         /\ translators[c] = <<>>
         /\ link[c] = NoLink
         /\ log[c] = <<>>
    /\ \A i \in 1..Len(translators[c]) : IsTranslator(translators[c][i])
    /\ \A k \in 1..Len(log[c]) :
         /\ IsTranslator(log[c][k].tx)
         /\ log[c][k].out # Raise("AttributeError")
    /\ pend[c] # Raise("AttributeError")

\* A constructor call with a translator and a truthy non-translator failed.
C3_Witness ==
  \E c \in Callers :
    /\ ctor[c] = "ValueError"
    /\ cpc[c] = "failed"
    /\ \E i, j \in 1..Len(args[c]) :
         args[c][i] = JunkEntry /\ IsTranslator(args[c][j])

\* C4: the chain built from an argument list is the chain built from the
\* list without its None entries: the constructor ends the same way, holds
\* the same strategies and invokes them in the same order; None entries
\* alone never make it fail.
C4_AbsentEntriesFiltered ==
  \A c \in Callers :
    origin[c] = "chained" =>
      LET ref == ChainedTranslatorInit(StripAbsent(args[c]))
      IN  /\ ctor[c] = ref.status
          /\ translators[c] = ref.translators
          /\ \A k \in 1..Len(log[c]) :
               /\ k <= Len(ref.translators)
               /\ log[c][k].tx = ref.translators[k]
          /\ (\A i \in 1..Len(args[c]) :
                args[c][i] = NoneEntry \/ IsTranslator(args[c][i])) =>
               /\ ctor[c] = "ok"
               /\ translators[c] = StripAbsent(args[c])

\* ChainedTranslator(None, A, None) was built and translate ran on it.
C4_Witness ==
  \E c \in Callers :
    /\ cpc[c] = "done"
    /\ Len(args[c]) = 3
    /\ args[c][1] = NoneEntry
    /\ IsTranslator(args[c][2])
    /\ args[c][3] = NoneEntry
    /\ Len(log[c]) = 1
    /\ log[c][1].tx = args[c][2]

\* C5: the chain of Translator.default is the egg strategy followed by the
\* source strategy: the source strategy is invoked only after the egg
\* strategy returned None, and when the egg strategy returns a Distribution
\* that is the result and the source strategy performs nothing.
C5_DefaultBinaryFirst ==
  \A c \in Callers :
    origin[c] = "default" =>
      /\ ctor[c] = "ok"
      /\ Len(translators[c]) = 2
      /\ translators[c][1].type = "Egg"
      /\ translators[c][2].type = "Src"
      /\ (cpc[c] = "call" /\ Self(c).type = "Src") =>
           (Len(log[c]) = 1 /\ log[c][1].tx.type = "Egg" /\ log[c][1].out = Empty)
      /\ \A k \in 1..Len(log[c]) :
           log[c][k].tx.type = "Src" =>
             (k = 2 /\ log[c][1].tx.type = "Egg" /\ log[c][1].out = Empty)
      /\ (Len(log[c]) >= 1 /\ IsDist(log[c][1].out)) =>
           /\ cpc[c] = "done"
           /\ result[c] = log[c][1].out
           /\ log[c][1].out.what = "Egg"
           /\ Len(log[c]) = 1
           /\ \A k \in 1..Len(trace[c]) : translators[c][trace[c][k].i].type = "Egg"

\* The default chain resolved a binary link through the egg strategy.
C5_Witness ==
  \E c \in Callers :
    /\ origin[c] = "default"
    /\ cpc[c] = "done"
    /\ link[c].kind = "BINARY"
    /\ Len(log[c]) = 1
    /\ log[c][1].tx.type = "Egg"
    /\ IsDist(result[c])
    /\ result[c] = log[c][1].out

\* The k-th operation of caller c is the guard of a strategy that found the
\* link not applicable: wrong kind, or a failed compatibility check.
NotApplicable(c, k) ==
  LET e == trace[c][k]
      tx == translators[c][e.i]
  IN  /\ e.op = "check"
      /\ \/ tx.type = "Src" /\ (link[c].kind # "SOURCE" \/ e.s # "ok")
         \/ tx.type = "Egg" /\ (link[c].kind # "BINARY" \/ e.s # "ok")

\* C6: a strategy given a link of the wrong kind, or one that fails its
\* compatibility check, returns None at once: the guard is the only
\* operation of that invocation (no fetch, Installer, build or distill), and
\* guards alone leave no directory, installer or cache entry behind.
C6_NotApplicableShortCircuit ==
  /\ \A c \in Callers : \A k \in 1..Len(trace[c]) :
       NotApplicable(c, k) =>
         /\ EventsOf(c, trace[c][k].i) = {k}
         /\ Exited(c, trace[c][k].i)
         /\ Outcome(c, trace[c][k].i) = Empty
  /\ (\A c \in Callers : \A k \in 1..Len(trace[c]) : trace[c][k].op = "check") =>
       /\ live = {}
       /\ cache = {}
       /\ dirs = {CacheDir} \cup
            UNION {{translators[c][i].install_cache :
                      i \in 1..Len(translators[c])} \ {NoPath} : c \in Callers}

\* An egg strategy refused a source link for its kind and a source strategy
\* then refused it for its platform, both returning None.
C6_Witness ==
  \E c \in Callers :
    /\ link[c].kind = "SOURCE"
    /\ Len(log[c]) = 2
    /\ log[c][1].tx.type = "Egg"
    /\ log[c][2].tx.type = "Src"
    /\ Did(c, 2, "check", "platform")
    /\ log[c][1].out = Empty
    /\ log[c][2].out = Empty

\* C7: once SourceTranslator.translate has been left, however it was left,
\* the directory its fetch returned no longer exists and the installer it
\* created has been cleaned up.
C7_SourceTemporariesReleased ==
  \A c \in Callers : \A i \in 1..Len(translators[c]) :
    (translators[c][i].type = "Src" /\ Exited(c, i)) =>
      \A k \in EventsOf(c, i) :
        /\ (trace[c][k].op = "fetch" /\ trace[c][k].s = "ok") =>
             trace[c][k].v \notin dirs
        /\ (trace[c][k].op = "Installer" /\ trace[c][k].v # NoPath) =>
             trace[c][k].v \notin live

\* A source strategy was left by an error of distill, after it had fetched
\* and created its installer.
C7_Witness ==
  \E c \in Callers : \E i \in 1..Len(log[c]) :
    /\ log[c][i].tx.type = "Src"
    /\ log[c][i].out = Raise("DistillError")
    /\ Did(c, i, "fetch", "ok")
    /\ \E k \in EventsOf(c, i) :
         trace[c][k].op = "Installer" /\ trace[c][k].v # NoPath

\* C8: once SourceTranslator.translate has been left by the URLError of its
\* fetch, no directory created for the call exists, the one fetch created
\* before it failed included.
C8_FetchErrorLeavesNoDirectory ==
  \A c \in Callers : \A i \in 1..Len(translators[c]) :
    (/\ translators[c][i].type = "Src"
     /\ Exited(c, i)
     /\ Did(c, i, "fetch", "URLError")) =>
      \A k \in EventsOf(c, i) :
        (trace[c][k].op = "fetch" /\ trace[c][k].v # NoPath) =>
          trace[c][k].v \notin dirs

\* C9: a URLError of the source strategy's fetch leaves the strategy as that
\* error, never as None; the chain's translate raises it and no later
\* strategy is invoked.
C9_SourceFetchErrorPropagates ==
  \A c \in Callers : \A i \in 1..Len(translators[c]) :
    (translators[c][i].type = "Src" /\ Did(c, i, "fetch", "URLError")) =>
      /\ cpc[c] = "call" => (idx[c] = i /\ pend[c] = Raise("URLError"))
      /\ cpc[c] # "call" =>
           /\ cpc[c] = "done"
           /\ Len(log[c]) = i
           /\ log[c][i].out = Raise("URLError")
           /\ result[c] = Raise("URLError")
      /\ \A k \in 1..Len(trace[c]) : trace[c][k].i <= i

\* The second of three strategies was a source strategy whose fetch raised:
\* the chain raised URLError and the third strategy was not invoked.
C9_Witness ==
  \E c \in Callers :
    /\ cpc[c] = "done"
    /\ Len(translators[c]) = 3
    /\ Len(log[c]) = 2
    /\ log[c][2].tx.type = "Src"
    /\ Did(c, 2, "fetch", "URLError")
    /\ result[c] = Raise("URLError")

\* C10: Installer.InstallFailure from installer.distribution() makes the
\* source strategy return None with its unpack directory removed, and the
\* chain goes on to the next strategy; any other error of the build step
\* leaves the strategy and the chain as that error.
C10_BuildFailureIsSoft ==
  \A c \in Callers : \A i \in 1..Len(translators[c]) :
    translators[c][i].type = "Src" =>
      /\ Did(c, i, "distribution", "InstallFailure") =>
           /\ (cpc[c] = "call" /\ idx[c] = i) => pend[c] = Empty
           /\ Exited(c, i) =>
                /\ Outcome(c, i) = Empty
                /\ \A k \in EventsOf(c, i) :
                     trace[c][k].op = "fetch" => trace[c][k].v \notin dirs
           /\ cpc[c] = "done" =>
                IF i < Len(translators[c])
                THEN Len(log[c]) > i /\ log[c][i + 1].idx = i + 1
                ELSE result[c] = Empty
      /\ Did(c, i, "distribution", "BuildError") =>
           /\ cpc[c] = "call" => (idx[c] = i /\ pend[c] = Raise("BuildError"))
           /\ cpc[c] # "call" =>
                /\ cpc[c] = "done"
                /\ Len(log[c]) = i
                /\ result[c] = Raise("BuildError")

\* A source strategy's build failed with InstallFailure, it returned None and
\* the chain invoked its next strategy.
C10_Witness ==
  \E c \in Callers :
    /\ cpc[c] = "done"
    /\ Len(log[c]) >= 2
    /\ log[c][1].tx.type = "Src"
    /\ Did(c, 1, "distribution", "InstallFailure")
    /\ log[c][1].out = Empty
    /\ log[c][2].idx = 2

\* C11: a URLError of the egg strategy's fetch is caught: the strategy
\* returns None, and the chain is not aborted but invokes its next strategy
\* (or returns None when there is none).
C11_EggFetchErrorIsSoft ==
  \A c \in Callers : \A i \in 1..Len(translators[c]) :
    (translators[c][i].type = "Egg" /\ Did(c, i, "fetch", "URLError")) =>
      /\ Exited(c, i)
      /\ Outcome(c, i) = Empty
      /\ result[c].kind # "raise" \/ Len(log[c]) > i
      /\ cpc[c] = "done" =>
           IF i < Len(translators[c])
           THEN Len(log[c]) > i /\ log[c][i + 1].idx = i + 1
           ELSE result[c] = Empty

\* The fetch of an egg strategy raised URLError, the strategy returned None
\* and the chain invoked the strategy after it.
C11_Witness ==
  \E c \in Callers :
    /\ cpc[c] = "done"
    /\ Len(log[c]) >= 2
    /\ log[c][1].tx.type = "Egg"
    /\ Did(c, 1, "fetch", "URLError")
    /\ log[c][1].out = Empty
    /\ log[c][2].idx = 2

\* C12: the two strategies of every chain built by Translator.default hold
\* the same install cache path, platform, interpreter version and connection
\* timeout, also when no cache directory was given.
C12_DefaultSharesConfiguration ==
  \A c \in Callers :
    (origin[c] = "default" /\ ctor[c] = "ok") =>
      /\ translators[c][1].install_cache = translators[c][2].install_cache
      /\ translators[c][1].platform = translators[c][2].platform
      /\ translators[c][1].python = translators[c][2].python
      /\ translators[c][1].conn_timeout = translators[c][2].conn_timeout

\* The kind of link a strategy resolves.
KindOf(tx) == IF tx.type = "Src" THEN "SOURCE" ELSE "BINARY"

\* C13: every Distribution that a SourceTranslator or an EggTranslator has
\* returned, alone or through a chain, comes from the strategy whose kind is
\* the link's kind, in an invocation whose compatibility check passed.
C13_DistributionKindMatchesLink ==
  \A c \in Callers :
    /\ \A i \in 1..Len(translators[c]) :
         (/\ translators[c][i].type \in {"Src", "Egg"}
          /\ Exited(c, i)
          /\ IsDist(Outcome(c, i))) =>
           /\ link[c].kind = KindOf(translators[c][i])
           /\ Outcome(c, i).what = translators[c][i].type
           /\ Did(c, i, "check", "ok")
    /\ (IsDist(result[c]) /\ result[c].what \in {"Src", "Egg"}) =>
         /\ link[c].kind = (IF result[c].what = "Src" THEN "SOURCE" ELSE "BINARY")
         /\ log[c][Len(log[c])].tx.type = result[c].what

\* A chain returned the Distribution its source strategy built from a
\* source link.
C13_Witness ==
  \E c \in Callers :
    /\ cpc[c] = "done"
    /\ IsDist(result[c])
    /\ result[c].what = "Src"
    /\ link[c].kind = "SOURCE"
    /\ Did(c, Len(log[c]), "check", "ok")

----------------------------------------------------------------------------
\* The unpack directories caller c's fetches returned.
Unpacked(c) ==
  {trace[c][k].v : k \in {j \in 1..Len(trace[c]) :
                            trace[c][j].op = "fetch" /\ trace[c][j].s = "ok"}}

\* The installers caller c constructed.
Installers(c) ==
  {trace[c][k].v : k \in {j \in 1..Len(trace[c]) :
                            trace[c][j].op = "Installer"}} \ {NoPath}

\* C14: with two translate calls of SourceTranslator running concurrently
\* (same instance, or instances with the same or different install caches),
\* a call removes only an unpack directory its own fetch returned and cleans
\* up only an installer it constructed itself; the calls' directories and
\* installers are distinct, and each stays in place, whatever the other call
\* does, until its own call releases it.
C14_TemporariesOwnedByTheirCall ==
  /\ \A c \in ConcCallers :
       /\ \A k \in 1..Len(trace[c]) :
            /\ trace[c][k].op = "rmtree" => trace[c][k].v \in Unpacked(c)
            /\ trace[c][k].op \in {"cleanup", "distribution"} =>
                 trace[c][k].v \in Installers(c)
       /\ (spc[c] \in {"src_installer", "src_build", "src_distill",
                       "src_meta", "src_cleanup", "src_rmtree"}
           /\ unpack_path[c] # NoPath) =>
            /\ unpack_path[c] \in Unpacked(c)
            /\ unpack_path[c] \in dirs
       /\ (spc[c] \in {"src_build", "src_distill", "src_meta", "src_cleanup"}
           /\ installer[c] # NoPath) =>
            /\ installer[c] \in Installers(c)
            /\ installer[c] \in live
  /\ \A c, d \in ConcCallers :
       c # d => /\ Unpacked(c) \cap Unpacked(d) = {}
                /\ Installers(c) \cap Installers(d) = {}

\* Two calls on the same instance: one is still building in its unpack
\* directory after the other, which fetched later, removed its own.
C14_Witness ==
  \E c, d \in ConcCallers :
    /\ c # d
    /\ translators[c] = translators[d]
    /\ spc[c] = "src_build"
    /\ unpack_path[c] \in dirs
    /\ installer[c] \in live
    /\ \E k \in 1..Len(trace[d]) :
         /\ trace[d][k].op = "rmtree"
         /\ trace[d][k].v > unpack_path[c]
         /\ trace[d][k].v \notin dirs
    /\ \E k \in 1..Len(trace[d]) :
         trace[d][k].op = "cleanup" /\ trace[d][k].v \notin live

----------------------------------------------------------------------------
\* The fetch operations of the i-th invocation.
FetchesOf(c, i) == {k \in EventsOf(c, i) : trace[c][k].op = "fetch"}

\* C15: an invocation of a strategy calls link.fetch at most once; a failed
\* fetch ends the invocation, with the URLError propagated by the source
\* strategy and with None returned by the egg strategy; a chain built by
\* Translator.default invokes each of its two strategies at most once, hence
\* fetches at most once per strategy.
C15_NoRetry ==
  \A c \in Callers :
    /\ \A i \in 1..Len(translators[c]) :
         /\ Cardinality(FetchesOf(c, i)) <= 1
         /\ \A k \in FetchesOf(c, i) :
              trace[c][k].s # "ok" =>
                /\ k = Len(trace[c]) \/ trace[c][k + 1].i # i
                     \/ trace[c][k + 1].op \in {"cleanup", "rmtree"}
                /\ Exited(c, i) =>
                     Outcome(c, i) = IF translators[c][i].type = "Src"
                                     THEN Raise("URLError") ELSE Empty
    /\ origin[c] = "default" =>
         /\ Len(log[c]) <= 2
         /\ \A j, k \in 1..Len(log[c]) : log[c][j].idx = log[c][k].idx => j = k
         /\ \A k \in 1..Len(trace[c]) : trace[c][k].i \in {1, 2}

\* A translate call on the default chain whose source strategy's one fetch
\* failed: the call ended with the URLError and no second fetch.
C15_Witness ==
  \E c \in Callers :
    /\ origin[c] = "default"
    /\ cpc[c] = "done"
    /\ link[c].kind = "SOURCE"
    /\ Cardinality(FetchesOf(c, 2)) = 1
    /\ FetchesOf(c, 1) = {}
    /\ \E k \in FetchesOf(c, 2) : trace[c][k].s = "URLError"
    /\ result[c] = Raise("URLError")

----------------------------------------------------------------------------
\* The install cache directories of the strategies caller c holds.
InstallCaches(c) ==
  {translators[c][i].install_cache :
     i \in {j \in 1..Len(translators[c]) :
              translators[c][j].type \in {"Src", "Egg"}}}

\* C16: at every point of every translate call, on every exit path, the
\* install cache directory of every strategy still exists and what was
\* distilled or fetched into it is still there; the strategies are the
\* constructed ones, cache path included; safe_rmtree is only ever applied to
\* the unpack directory of the invocation and cleanup to its installer.
C16_InstallCacheOutlivesCalls ==
  \A c \in Callers :
    ctor[c] = "ok" =>
      /\ InstallCaches(c) \subseteq dirs
      /\ origin[c] = "chained" => translators[c] = SelectSeq(args[c], Truthy)
      /\ \A i \in 1..Len(log[c]) : log[c][i].tx = translators[c][i]
      /\ \A k \in 1..Len(trace[c]) :
           LET e == trace[c][k] IN
           /\ (/\ e.s = "ok"
               /\ \/ translators[c][e.i].type = "Src" /\ e.op = "distill"
                  \/ translators[c][e.i].type = "Egg" /\ e.op = "fetch") =>
                [dir |-> translators[c][e.i].install_cache,
                 name |-> link[c].name] \in cache
           /\ e.op = "rmtree" =>
                /\ e.v \notin InstallCaches(c)
                /\ \E j \in FetchesOf(c, e.i) :
                     trace[c][j].v = e.v /\ trace[c][j].s = "ok"
           /\ e.op = "cleanup" =>
                \E j \in EventsOf(c, e.i) :
                  trace[c][j].op = "Installer" /\ trace[c][j].v = e.v

\* A source strategy distilled into its install cache and has removed its
\* unpack directory: the cache directory and the distilled egg remain.
C16_Witness ==
  \E c \in Callers :
    /\ cpc[c] = "done"
    /\ IsDist(result[c])
    /\ \E k \in 1..Len(trace[c]) :
         /\ trace[c][k].op = "rmtree"
         /\ trace[c][k].v \notin dirs
         /\ translators[c][trace[c][k].i].install_cache \in dirs
         /\ [dir |-> translators[c][trace[c][k].i].install_cache,
             name |-> link[c].name] \in cache

----------------------------------------------------------------------------
\* The caller is inside EggTranslator.translate.
InEgg(c) == spc[c] \in {"egg_check", "egg_fetch", "egg_meta"}

\* What an invocation of the egg strategy has done so far: the checks, at
\* most the fetch, at most the metadata construction; the fetch went to the
\* strategy's install cache directory, and a fetched egg is still there.
EggEffects(c, i) ==
  /\ \A k \in EventsOf(c, i) :
       /\ trace[c][k].op \in {"check", "fetch", "dist_from_egg"}
       /\ trace[c][k].op = "fetch" =>
            /\ trace[c][k].v = translators[c][i].install_cache
            /\ trace[c][k].v \in dirs
            /\ trace[c][k].s = "ok" =>
                 [dir |-> translators[c][i].install_cache,
                  name |-> link[c].name] \in cache
  /\ IsDist(Outcome(c, i)) /\ Exited(c, i) =>
       /\ Outcome(c, i).loc = translators[c][i].install_cache
       /\ Did(c, i, "fetch", "ok")

\* C17: EggTranslator.translate builds and distills nothing and fetches into
\* the strategy's install cache directory; no step of it creates or removes a
\* directory or an installer, or removes anything from a cache, so what it
\* fetched stays when the call exits.
C17_EggOnlyFetchesIntoCache ==
  /\ [](\A c \in Callers : \A i \in 1..Len(translators[c]) :
          translators[c][i].type = "Egg" => EggEffects(c, i))
  /\ [][\A c \in Callers :
          InEgg(c) => /\ dirs' = dirs
                      /\ live' = live
                      /\ cache \subseteq cache'
                      /\ unpack_path' = unpack_path
                      /\ installer' = installer]_vars

\* An egg strategy fetched into its install cache and the call has returned
\* the Distribution: the egg is in the cache and no directory was made.
C17_Witness ==
  \E c \in Callers :
    /\ cpc[c] = "done"
    /\ Len(log[c]) = 1
    /\ log[c][1].tx.type = "Egg"
    /\ IsDist(result[c])
    /\ Did(c, 1, "fetch", "ok")
    /\ [dir |-> log[c][1].tx.install_cache, name |-> link[c].name] \in cache
    /\ dirs = {CacheDir}
    /\ live = {}

----------------------------------------------------------------------------
\* C18: the source strategy constructs its Installer in strict mode exactly
\* when the link's name is not 'distribute'; for a link named 'distribute'
\* the Installer, and the build it runs, is not strict.
C18_StrictUnlessDistribute ==
  \A c \in Callers : \A k \in 1..Len(trace[c]) :
    (trace[c][k].op = "Installer" /\ trace[c][k].v # NoPath) =>
      /\ translators[c][trace[c][k].i].type = "Src"
      /\ trace[c][k].s \in {"strict", "lenient"}
      /\ trace[c][k].s = "strict" <=> link[c].name # "distribute"
      /\ trace[c][k].s = "lenient" <=> link[c].name = "distribute"

\* The build of a link named 'distribute' ran with a non-strict Installer.
C18_Witness ==
  \E c \in Callers : \E k \in 1..Len(trace[c]) :
    /\ link[c].name = "distribute"
    /\ trace[c][k].op = "Installer"
    /\ trace[c][k].s = "lenient"
    /\ Did(c, trace[c][k].i, "distribution", "ok")

----------------------------------------------------------------------------
\* The steps of SourceTranslator.translate in the order of the claim.
StepOrder ==
  <<"check", "fetch", "Installer", "distribution", "distill",
    "dist_from_egg", "cleanup", "rmtree">>

Rank(op) == CHOOSE n \in 1..Len(StepOrder) : StepOrder[n] = op

\* C19: the operations of an invocation of the source strategy happen in the
\* order checks, fetch, Installer construction, build, distill, metadata
\* construction, installer.cleanup, safe_rmtree, each at most once; the
\* Installer is constructed only after fetch returned a path, the build runs
\* only on a constructed Installer, distill only after the build returned a
\* distribution, metadata only after distill; and while a pipeline step of
\* the call can still run its unpack directory exists and its installer is
\* not cleaned up.
C19_SourceStepOrder ==
  \A c \in Callers :
    /\ \A i \in 1..Len(translators[c]) :
         translators[c][i].type = "Src" =>
           /\ \A j, k \in EventsOf(c, i) :
                /\ trace[c][j].op \in {StepOrder[n] : n \in 1..Len(StepOrder)}
                /\ j < k => Rank(trace[c][j].op) < Rank(trace[c][k].op)
           /\ \A k \in EventsOf(c, i) :
                LET e == trace[c][k] IN
                /\ e.op = "fetch" => Did(c, i, "check", "ok")
                /\ e.op = "Installer" => Did(c, i, "fetch", "ok")
                /\ e.op = "distribution" =>
                     \E j \in EventsOf(c, i) :
                       /\ j < k
                       /\ trace[c][j].op = "Installer"
                       /\ trace[c][j].v = e.v
                       /\ e.v # NoPath
                /\ e.op = "distill" => Did(c, i, "distribution", "ok")
                /\ e.op = "dist_from_egg" => Did(c, i, "distill", "ok")
    /\ spc[c] \in {"src_installer", "src_build", "src_distill", "src_meta"} =>
         /\ unpack_path[c] \in dirs
         /\ ~ \E k \in EventsOf(c, idx[c]) :
                trace[c][k].op \in {"cleanup", "rmtree"}
    /\ spc[c] \in {"src_build", "src_distill", "src_meta"} =>
         installer[c] \in live

\* An invocation of the source strategy went through all eight steps.
C19_Witness ==
  \E c \in Callers : \E i \in 1..Len(log[c]) :
    /\ log[c][i].tx.type = "Src"
    /\ IsDist(log[c][i].out)
    /\ {trace[c][k].op : k \in EventsOf(c, i)} =
         {StepOrder[n] : n \in 1..Len(StepOrder)}
    /\ \E j, k \in EventsOf(c, i) :
         /\ k = j + 1
         /\ trace[c][j].op = "cleanup"
         /\ trace[c][k].op = "rmtree"

----------------------------------------------------------------------------
\* The cache entries written by the operations logged so far: what a source
\* strategy distilled and what an egg strategy fetched.
Written(c) ==
  {[dir |-> translators[c][trace[c][k].i].install_cache, name |-> link[c].name] :
     k \in {j \in 1..Len(trace[c]) :
              /\ trace[c][j].s = "ok"
              /\ \/ /\ translators[c][trace[c][j].i].type = "Src"
                    /\ trace[c][j].op = "distill"
                 \/ /\ translators[c][trace[c][j].i].type = "Egg"
                    /\ trace[c][j].op = "fetch"}}

\* C20: the source strategy invokes the distiller only after the build
\* returned a distribution; an invocation that returned None (not a source
\* link, incompatible, or InstallFailure) or that left with an error of
\* fetch, of the Installer or of the build never invoked the distiller, and
\* the install caches hold exactly what successful distills (and egg
\* fetches) put there.
C20_CacheWrittenOnlyAfterBuild ==
  /\ \A c \in Callers : \A i \in 1..Len(translators[c]) :
       translators[c][i].type = "Src" =>
         /\ (\E k \in EventsOf(c, i) : trace[c][k].op = "distill") =>
              Did(c, i, "distribution", "ok")
         /\ (/\ Exited(c, i)
             /\ Outcome(c, i) \in {Empty, Raise("URLError"),
                                   Raise("InstallerError"),
                                   Raise("BuildError")}) =>
              ~ \E k \in EventsOf(c, i) : trace[c][k].op = "distill"
  /\ cache = UNION {Written(c) : c \in Callers}

\* The build of a source link failed with InstallFailure: the strategy
\* returned None, the distiller was not invoked and the cache is as before.
C20_Witness ==
  \E c \in Callers : \E i \in 1..Len(log[c]) :
    /\ log[c][i].tx.type = "Src"
    /\ Did(c, i, "distribution", "InstallFailure")
    /\ log[c][i].out = Empty
    /\ ~ \E k \in EventsOf(c, i) : trace[c][k].op = "distill"
    /\ cache = {}

====
